---- MODULE Spec2Model ----
(***************************************************************************)
(* Model of packages/tracing/src/hubextensions.ts: the sampling decision   *)
(* (sample), the sample-context builder, the rate validator, the trace     *)
(* header extension and the registration of the extension methods on the   *)
(* main carrier.                                                           *)
(*                                                                         *)
(* JavaScript values are records [k, v]: k is the kind of the value and v  *)
(* its payload.  Numbers are kept in hundredths (0.5 is 50, 1 is 100), NaN *)
(* is a kind of its own whose typeof is "number", a string is an index     *)
(* into StringTable.                                                       *)
(***************************************************************************)
EXTENDS Integers, Sequences, FiniteSets, TLC

\* client: what hub.getClient() returns and the options of that client.
\* scope: what hub.getScope() returns and the span that scope holds.
\* carrier: the object getMainCarrier() returns.
\* last: the operation performed last, its inputs, its result and its effects.
VARIABLES client, scope, carrier, last

vars == <<client, scope, carrier, last>>

\* Largest _experiments.maxSpans value the configurations range over.
MaxSpansCap == 2

(***************************************************************************)
(* JavaScript values                                                       *)
(***************************************************************************)
JS(k, v) == [k |-> k, v |-> v]

Undefined == JS("undefined", 0)

Null == JS("null", 0)

JSTrue == JS("boolean", 1)

JSFalse == JS("boolean", 0)

NaN == JS("nan", 0)

Num(n) == JS("number", n)

\* StringTable[1] is the string "0.5", StringTable[2] the string "abc".
StringTable == <<"0.5", "abc">>

Str(i) == JS("string", i)

\* typeof
TypeOf(x) ==
  CASE x.k = "undefined" -> "undefined"
    [] x.k = "null" -> "object"
    [] x.k = "boolean" -> "boolean"
    [] x.k = "number" -> "number"
    [] x.k = "nan" -> "number"
    [] x.k = "string" -> "string"

\* The numeric value of a string literal of StringTable (hundredths), NaN
\* for a string that is not a numeral.
StringToNumber(i) == IF StringTable[i] = "0.5" THEN Num(50) ELSE NaN

\* ToNumber, the coercion applied by isNaN and by the relational operators.
ToNumber(x) ==
  CASE x.k = "undefined" -> NaN
    [] x.k = "null" -> Num(0)
    [] x.k = "boolean" -> Num(100 * x.v)
    [] x.k = "number" -> x
    [] x.k = "nan" -> NaN
    [] x.k = "string" -> StringToNumber(x.v)

\* isNaN(x)
IsNaN(x) == ToNumber(x).k = "nan"

\* x < y on coerced operands; any comparison with NaN is false.
JSLess(x, y) ==
  /\ ~IsNaN(x)
  /\ ~IsNaN(y)
  /\ ToNumber(x).v < ToNumber(y).v

\* !x
Not(x) ==
  CASE x.k = "undefined" -> TRUE
    [] x.k = "null" -> TRUE
    [] x.k = "boolean" -> x.v = 0
    [] x.k = "number" -> x.v = 0
    [] x.k = "nan" -> TRUE
    [] x.k = "string" -> StringTable[x.v] = ""

(***************************************************************************)
(* Input domains                                                           *)
(***************************************************************************)
TraceIds == {"abc123"}

SpanIds == {"def456"}

\* The empty string stands for an absent parentSpanId.
ParentSpanIds == {"", "00f067aa"}

Tristate == {Undefined, JSTrue, JSFalse}

\* Values a user may configure as tracesSampleRate.
RateValues ==
  {Undefined, JSTrue, JSFalse, NaN, Num(-100), Num(0), Num(50), Num(100), Num(150), Str(1)}

\* Values the user's tracesSampler may return.
HookValues == {JSTrue, JSFalse, NaN, Num(50), Num(150)}

\* Results of Math.random(), in [0, 1).
Draws == {Num(0), Num(99)}

MaxSpansValues == {Undefined} \cup {Num(100 * i) : i \in 2..MaxSpansCap}

SamplerKinds == {"absent", "nonfunction", "function"}

\* What one invocation of the user's tracesSampler does.
HookOutcomes == [throws : {FALSE}, value : HookValues] \cup {[throws |-> TRUE, value |-> Undefined]}

\* The options object {} used when there is no client.
EmptyOptions ==
  [hasRate |-> FALSE, tracesSampleRate |-> Undefined, tracesSampler |-> "absent", maxSpans |-> Undefined]

\* The options of a client.  An option that is not configured reads as
\* undefined.  Every static rate is tried without a sampler; a sampler that
\* is not a function, or is one, comes with a few static rates.
Configurations ==
  {o \in [hasRate : BOOLEAN, tracesSampleRate : RateValues, tracesSampler : SamplerKinds,
          maxSpans : MaxSpansValues] :
     /\ ~o.hasRate => o.tracesSampleRate = Undefined
     /\ (o.tracesSampler = "nonfunction" /\ o.hasRate) => o.tracesSampleRate = Num(0)
     /\ (o.tracesSampler = "function" /\ o.hasRate) => o.tracesSampleRate = Num(150)}

NoRecorder == [present |-> FALSE, maxlen |-> Undefined]

NullSpan == [traceId |-> "", spanId |-> "", parentSpanId |-> "", sampled |-> Undefined, spanRecorder |-> NoRecorder]

\* What a scope keeps of its span: the fields toTraceparent reads.
SpanOf(t) == [traceId |-> t.traceId, spanId |-> t.spanId, sampled |-> t.sampled]

TransactionContexts == [traceId : TraceIds, spanId : SpanIds, parentSpanId : ParentSpanIds, sampled : Tristate]

\* A sample context keeps the one key the decision reads, parentSampled;
\* has is FALSE when the key is absent.
SampleContexts == {c \in [has : BOOLEAN, parentSampled : Tristate] : ~c.has => c.parentSampled = Undefined}

SlotValues == {"undefined", "_startTransaction", "traceHeaders", "other"}

\* The carriers the program may find: __SENTRY__ and its extensions table
\* may be missing, and another writer may have filled either slot.
Carriers ==
  {c \in [hasSentry : BOOLEAN, hasExtensions : BOOLEAN,
          startTransaction : {"undefined", "other"}, traceHeaders : {"undefined", "other"}] :
     /\ ~c.hasSentry => ~c.hasExtensions
     /\ ~c.hasExtensions => (c.startTransaction = "undefined" /\ c.traceHeaders = "undefined")}

NoHook == [throws |-> FALSE, value |-> Undefined]

(***************************************************************************)
(* Collaborators of hubextensions.ts                                       *)
(***************************************************************************)
\* Span.toTraceparent
toTraceparent(span) ==
  LET sampledString ==
        IF span.sampled # Undefined THEN (IF ~Not(span.sampled) THEN "-1" ELSE "-0") ELSE ""
  IN span.traceId \o "-" \o span.spanId \o sampledString

\* hasTracingEnabled(options): one of the two sampling options is configured.
hasTracingEnabled(options) == options.hasRate \/ options.tracesSampler # "absent"

\* new Transaction(context, hub): the context's fields, no span recorder yet.
Transaction(context) ==
  [traceId |-> context.traceId, spanId |-> context.spanId, parentSpanId |-> context.parentSpanId,
   sampled |-> context.sampled, spanRecorder |-> NoRecorder]

\* Transaction.initSpanRecorder(maxSpans): creates the recorder unless there is one.
initSpanRecorder(t, maxSpans) ==
  IF t.spanRecorder.present THEN t
  ELSE [t EXCEPT !.spanRecorder = [present |-> TRUE, maxlen |-> maxSpans]]

\* The IdleTransaction constructor puts the new transaction on the hub's
\* scope when onScope is set and the hub has a scope.
putOnScope(sc, t, onScope) ==
  IF onScope /\ sc.present THEN [sc EXCEPT !.hasSpan = TRUE, !.span = SpanOf(t)] ELSE sc

(***************************************************************************)
(* hubextensions.ts                                                        *)
(***************************************************************************)
traceHeaders_nospancheck(sc) ==
  IF sc.present THEN {<<"sentry-trace", toTraceparent(sc.span)>>} ELSE {}

\* traceHeaders: a mapping is the set of its <<key, value>> pairs.
traceHeaders(sc) ==
  IF sc.present
  THEN (IF sc.hasSpan THEN {<<"sentry-trace", toTraceparent(sc.span)>>} ELSE {})
  ELSE {}

_inheritOrUseGivenRate_ignoresparent(parentSampled, givenRate) == givenRate

_inheritOrUseGivenRate(parentSampled, givenRate) ==
  IF parentSampled # Undefined THEN parentSampled ELSE givenRate

isValidSampleRate_norange(rate) ==
  IF IsNaN(rate) \/ ~(TypeOf(rate) = "number" \/ TypeOf(rate) = "boolean")
  THEN [valid |-> FALSE, warns |-> 1]
  ELSE [valid |-> TRUE, warns |-> 0]

\* isValidSampleRate: the verdict and the number of warnings it logged.
isValidSampleRate(rate) ==
  IF IsNaN(rate) \/ ~(TypeOf(rate) = "number" \/ TypeOf(rate) = "boolean")
  THEN [valid |-> FALSE, warns |-> 1]
  ELSE IF JSLess(rate, Num(0)) \/ JSLess(Num(100), rate)
       THEN [valid |-> FALSE, warns |-> 1]
       ELSE [valid |-> TRUE, warns |-> 0]

\* const options = (client && client.getOptions()) || {}
getOptions(c) == IF c.present THEN c.options ELSE EmptyOptions

tracingDisabled_clientonly(c, options) == ~c.present

\* !client || !hasTracingEnabled(options)
tracingDisabled(c, options) == ~c.present \/ ~hasTracingEnabled(options)

rateIsFalsy_never(sampleRate) == FALSE

\* !sampleRate
rateIsFalsy(sampleRate) == Not(sampleRate)

rollDice_flipped(rnd, sampleRate) == JSLess(sampleRate, rnd)

\* Math.random() < sampleRate
rollDice(rnd, sampleRate) == JSLess(rnd, sampleRate)

experimentsMaxSpans_dropped(options) == Undefined

\* (options._experiments || {}).maxSpans
experimentsMaxSpans(options) == options.maxSpans

\* The outcome of sample(): the transaction as sample() leaves it, whether
\* the call threw, the random numbers it drew, and how many times it called
\* the hook, logger.warn, logger.log and initSpanRecorder.
Outcome(t, threw, drawn, hookCalls, warns, logs, inits) ==
  [transaction |-> t, threw |-> threw, drawn |-> drawn, hookCalls |-> hookCalls,
   warns |-> warns, logs |-> logs, recorderInits |-> inits]

\* sample(), from the validation of the selected rate to the end.
decide(options, t, sampleRate, hookCalls, rnd) ==
  LET validity == isValidSampleRate(sampleRate)
  IN IF ~validity.valid
     THEN Outcome([t EXCEPT !.sampled = JSFalse], FALSE, <<>>, hookCalls, validity.warns + 1, 0, 0)
     ELSE IF rateIsFalsy(sampleRate)
          THEN Outcome([t EXCEPT !.sampled = JSFalse], FALSE, <<>>, hookCalls, 0, 1, 0)
          ELSE IF ~rollDice(rnd, sampleRate)
               THEN Outcome([t EXCEPT !.sampled = JSFalse], FALSE, <<rnd>>, hookCalls, 0, 1, 0)
               ELSE Outcome(initSpanRecorder([t EXCEPT !.sampled = JSTrue], experimentsMaxSpans(options)),
                            FALSE, <<rnd>>, hookCalls, 0, 0, 1)

sample_swallows(c, t, parentSampled, hook, rnd) ==
  LET options == getOptions(c)
  IN IF tracingDisabled(c, options)
     THEN Outcome([t EXCEPT !.sampled = JSFalse], FALSE, <<>>, 0, 0, 0, 0)
     ELSE IF options.tracesSampler = "function"
          THEN (IF hook.throws
                THEN Outcome([t EXCEPT !.sampled = JSFalse], FALSE, <<>>, 1, 0, 0, 0)
                ELSE decide(options, t, hook.value, 1, rnd))
          ELSE decide(options, t, _inheritOrUseGivenRate(parentSampled, options.tracesSampleRate), 0, rnd)

\* sample(hub, transaction, sampleContext): c is hub.getClient(), parentSampled
\* is sampleContext.parentSampled, hook is what tracesSampler does when it
\* is invoked, rnd is what Math.random() returns when it is called.
sample(c, t, parentSampled, hook, rnd) ==
  LET options == getOptions(c)
  IN IF tracingDisabled(c, options)
     THEN Outcome([t EXCEPT !.sampled = JSFalse], FALSE, <<>>, 0, 0, 0, 0)
     ELSE IF options.tracesSampler = "function"
          THEN (IF hook.throws
                THEN Outcome(t, TRUE, <<>>, 1, 0, 0, 0)
                ELSE decide(options, t, hook.value, 1, rnd))
          ELSE decide(options, t, _inheritOrUseGivenRate(parentSampled, options.tracesSampleRate), 0, rnd)

\* getDefaultSampleContext: parentSampled is the only key sample() reads; the
\* request and location keys are only handed to the user's tracesSampler.
getDefaultSampleContext(t) ==
  IF t.parentSpanId # "" /\ t.sampled # Undefined
  THEN [has |-> TRUE, parentSampled |-> t.sampled]
  ELSE [has |-> FALSE, parentSampled |-> Undefined]

\* { ...getDefaultSampleContext(transaction), ...customSampleContext }
mergeSampleContext(default, custom) == IF custom.has THEN custom ELSE default

_addTracingExtensions_overwrites(c) ==
  IF c.hasSentry
  THEN [c EXCEPT !.hasExtensions = TRUE, !.startTransaction = "_startTransaction",
                 !.traceHeaders = "traceHeaders"]
  ELSE c

\* _addTracingExtensions on the carrier that getMainCarrier() returns.
_addTracingExtensions(c) ==
  IF c.hasSentry
  THEN [c EXCEPT !.hasExtensions = TRUE,
                 !.startTransaction = IF @ = "undefined" THEN "_startTransaction" ELSE @,
                 !.traceHeaders = IF @ = "undefined" THEN "traceHeaders" ELSE @]
  ELSE c

(***************************************************************************)
(* State machine                                                           *)
(***************************************************************************)
\* The record of an operation that started no transaction.
Op(name, hdrs) ==
  [op |-> name, constructed |-> NullSpan, transaction |-> NullSpan, parentSampled |-> Undefined,
   hook |-> NoHook, threw |-> FALSE, drawn |-> <<>>, hookCalls |-> 0, warns |-> 0, logs |-> 0,
   recorderInits |-> 0, headers |-> hdrs]

\* The record of an operation that started transaction t with outcome r.
Started(name, t, parentSampled, hook, r) ==
  [op |-> name, constructed |-> t, transaction |-> r.transaction, parentSampled |-> parentSampled,
   hook |-> hook, threw |-> r.threw, drawn |-> r.drawn, hookCalls |-> r.hookCalls,
   warns |-> r.warns, logs |-> r.logs, recorderInits |-> r.recorderInits, headers |-> {}]

Init ==
  /\ client \in {[present |-> FALSE, options |-> EmptyOptions]}
                  \cup [present : {TRUE}, options : Configurations]
  /\ scope \in [present : BOOLEAN, hasSpan : {FALSE}, span : {SpanOf(NullSpan)}]
  /\ carrier \in Carriers
  /\ last = Op("none", {})

\* What the configured tracesSampler may do when invoked; a configuration
\* without a sampler function has no hook to invoke.
Hooks ==
  IF client.present /\ client.options.tracesSampler = "function" THEN HookOutcomes ELSE {NoHook}

\* hub.startTransaction(context, customSampleContext): the hub calls
\* _startTransaction when that is what the startTransaction slot holds.
StartTransaction ==
  /\ carrier.startTransaction = "_startTransaction"
  /\ \E context \in TransactionContexts, custom \in SampleContexts, rnd \in Draws :
       \E hook \in Hooks :
         LET t == Transaction(context)
             ctx == mergeSampleContext(getDefaultSampleContext(t), custom)
             r == sample(client, t, ctx.parentSampled, hook, rnd)
         IN /\ last' = Started("_startTransaction", t, ctx.parentSampled, hook, r)
            /\ UNCHANGED <<client, scope, carrier>>

\* startIdleTransaction(hub, context, idleTimeout, onScope)
StartIdleTransaction ==
  \E context \in TransactionContexts, onScope \in BOOLEAN, rnd \in Draws :
    \E hook \in Hooks :
      LET t == Transaction(context)
          ctx == getDefaultSampleContext(t)
          r == sample(client, t, ctx.parentSampled, hook, rnd)
      IN /\ last' = Started("startIdleTransaction", t, ctx.parentSampled, hook, r)
         /\ scope' = putOnScope(scope, r.transaction, onScope)
         /\ UNCHANGED <<client, carrier>>

\* hub.traceHeaders(): the hub calls traceHeaders when that is what the
\* traceHeaders slot holds.
TraceHeaders ==
  /\ carrier.traceHeaders = "traceHeaders"
  /\ last' = Op("traceHeaders", traceHeaders(scope))
  /\ UNCHANGED <<client, scope, carrier>>

\* _addTracingExtensions()
AddTracingExtensions ==
  /\ carrier' = _addTracingExtensions(carrier)
  /\ last' = Op("_addTracingExtensions", {})
  /\ UNCHANGED <<client, scope>>

\* addExtensionMethods(); registerErrorInstrumentation() touches none of the
\* state kept here.
AddExtensionMethods ==
  /\ carrier' = _addTracingExtensions(carrier)
  /\ last' = Op("addExtensionMethods", {})
  /\ UNCHANGED <<client, scope>>

Next ==
  \/ StartTransaction
  \/ StartIdleTransaction
  \/ TraceHeaders
  \/ AddTracingExtensions
  \/ AddExtensionMethods

Spec == Init /\ [][Next]_vars

TypeOK ==
  /\ last.transaction.sampled \in Tristate
  /\ carrier.startTransaction \in SlotValues
  /\ Len(last.drawn) <= 1

(***************************************************************************)
(* Vocabulary of the properties                                            *)
(***************************************************************************)
\* The last operation started a transaction.
IsStart == last.op \in {"_startTransaction", "startIdleTransaction"}

\* The last operation started a transaction and returned it.
Returned == IsStart /\ ~last.threw

\* A tracesSampler function is configured.
SamplerConfigured == client.present /\ client.options.tracesSampler = "function"

\* Sampling is enabled: there is a client and one of the two options is set.
SamplingEnabled ==
  client.present /\ (client.options.hasRate \/ client.options.tracesSampler # "absent")

\* A rate is valid when it is a boolean or a number of [0, 1].
ValidRate(x) == x.k = "boolean" \/ (x.k = "number" /\ 0 <= x.v /\ x.v <= 100)

\* The rate the configuration gives: what the sampler returned, or the
\* static rate.
GivenRate == IF SamplerConfigured THEN last.hook.value ELSE client.options.tracesSampleRate

\* A rate is given by the configuration.
RateGiven == SamplerConfigured \/ (client.present /\ client.options.hasRate)

\* The configuration's rate decides: sampling is enabled and, without a
\* sampler function, the sample context carries no parent decision.
GivenRateDecides ==
  SamplingEnabled /\ (SamplerConfigured \/ last.parentSampled = Undefined)

\* The candidate rate of the decision.
CandidateRate ==
  IF ~SamplerConfigured /\ last.parentSampled # Undefined THEN last.parentSampled ELSE GivenRate

Sampled == last.transaction.sampled

(***************************************************************************)
(* Properties                                                              *)
(***************************************************************************)
\* C1 as stated: without a sampler function, parentSampled == true gives
\* sampled == true whatever the static rate and whether or not there is a client.
C1_ParentTrueAlwaysSampled ==
  (Returned /\ ~SamplerConfigured /\ last.parentSampled = JSTrue) => Sampled = JSTrue

\* C1 amended: when sampling is enabled and no sampler function is
\* configured, parentSampled == true gives sampled == true whatever the
\* static rate.
C1_ParentTrueSampledWhenEnabled ==
  (Returned /\ SamplingEnabled /\ ~SamplerConfigured /\ last.parentSampled = JSTrue)
    => Sampled = JSTrue

\* C1 witness: a parent's true decision beats a static rate of 0.
C1_Witness ==
  /\ Returned
  /\ client.present
  /\ client.options.tracesSampler = "absent"
  /\ client.options.tracesSampleRate = Num(0)
  /\ last.parentSampled = JSTrue
  /\ Sampled = JSTrue

\* C2 as stated: a configured rate of true gives sampled == true and a
\* configured rate of false gives sampled == false, for every sample context.
C2_BooleanRateDecidesAlways ==
  (Returned /\ RateGiven) =>
    /\ GivenRate = JSTrue => Sampled = JSTrue
    /\ GivenRate = JSFalse => Sampled = JSFalse

\* C2 amended: a rate of true or false given by the configuration decides
\* whenever that rate is the candidate rate (it is the sampler's return
\* value, or the static rate and the context has no parent decision).
C2_BooleanCandidateDecides ==
  (Returned /\ RateGiven /\ GivenRateDecides) =>
    /\ GivenRate = JSTrue => Sampled = JSTrue
    /\ GivenRate = JSFalse => Sampled = JSFalse

\* C2 witness: the sampler returns true, the parent said false, the draw is
\* the largest one, and the transaction is sampled.
C2_Witness ==
  /\ Returned
  /\ SamplerConfigured
  /\ last.hook.value = JSTrue
  /\ last.parentSampled = JSFalse
  /\ last.drawn = <<Num(99)>>
  /\ Sampled = JSTrue

\* C3 as stated: an invalid rate given by the configuration gives
\* sampled == false and a warning, for every sample context.
C3_InvalidRateAlwaysDropped ==
  (Returned /\ RateGiven /\ ~ValidRate(GivenRate)) => (Sampled = JSFalse /\ last.warns >= 1)

\* C3 amended: an invalid rate given by the configuration gives
\* sampled == false and a warning whenever that rate is the candidate rate.
C3_InvalidCandidateDropped ==
  (Returned /\ GivenRateDecides /\ ~ValidRate(GivenRate)) => (Sampled = JSFalse /\ last.warns >= 1)

\* C3 witness: the sampler returns 1.5 and the transaction is dropped with
\* the validator's warning and sample()'s own.
C3_Witness ==
  /\ Returned
  /\ SamplerConfigured
  /\ last.hook.value = Num(150)
  /\ Sampled = JSFalse
  /\ last.warns = 2

\* C4: sampled goes once from undecided to a boolean, and a sampled value
\* that was already true or false when the transaction was constructed is
\* not changed to the other boolean by sample().
C4_DecisionNeverReverts ==
  Returned =>
    /\ Sampled \in {JSTrue, JSFalse}
    /\ last.constructed.sampled # Undefined => Sampled = last.constructed.sampled

\* C5: when the tracesSampler hook throws, the exception leaves sample()
\* uncaught, and the transaction is as constructed: sampled not assigned,
\* no random number drawn, no span recorder initialized.
C5_HookExceptionPropagates ==
  (IsStart /\ SamplerConfigured /\ last.hook.throws) =>
    /\ last.threw
    /\ last.hookCalls = 1
    /\ last.transaction = last.constructed
    /\ last.drawn = <<>>
    /\ last.recorderInits = 0

\* C5 witness: the hook threw on a transaction constructed with sampled == true.
C5_Witness ==
  /\ IsStart
  /\ last.threw
  /\ last.constructed.sampled = JSTrue
  /\ last.transaction.sampled = JSTrue

\* C6: a filled extension slot is never overwritten, and a registration
\* fills each empty slot whatever the other slot holds.
C6_FirstRegistrationWins ==
  [][/\ carrier.startTransaction # "undefined" => carrier'.startTransaction = carrier.startTransaction
     /\ carrier.traceHeaders # "undefined" => carrier'.traceHeaders = carrier.traceHeaders
     /\ (last'.op \in {"_addTracingExtensions", "addExtensionMethods"} /\ carrier.hasSentry) =>
          /\ carrier.startTransaction = "undefined" => carrier'.startTransaction = "_startTransaction"
          /\ carrier.traceHeaders = "undefined" => carrier'.traceHeaders = "traceHeaders"]_vars

\* C6 witness: after a registration one slot still holds another writer's
\* implementation and the other holds this module's.
C6_Witness ==
  /\ last.op = "addExtensionMethods"
  /\ carrier.startTransaction = "other"
  /\ carrier.traceHeaders = "traceHeaders"

\* C7: a call of sample() that returns initializes the span recorder once,
\* with the configured maxSpans, when it ends with sampled == true, and not
\* at all when it ends with sampled == false.
C7_RecorderIffSampled ==
  Returned =>
    /\ Sampled = JSTrue =>
         /\ last.recorderInits = 1
         /\ last.transaction.spanRecorder = [present |-> TRUE, maxlen |-> client.options.maxSpans]
    /\ Sampled = JSFalse =>
         /\ last.recorderInits = 0
         /\ ~last.transaction.spanRecorder.present

\* C7 witness: a sampled transaction whose recorder has the configured cap.
C7_Witness ==
  /\ Returned
  /\ Sampled = JSTrue
  /\ client.options.maxSpans = Num(200)
  /\ last.transaction.spanRecorder.maxlen = Num(200)

\* C8: when sampling is not enabled, sample() sets sampled = false without
\* invoking a hook, emitting a diagnostic or initializing a recorder.
C8_DisabledDropsSilently ==
  (IsStart /\ ~SamplingEnabled) =>
    /\ ~last.threw
    /\ Sampled = JSFalse
    /\ last.hookCalls = 0
    /\ last.warns = 0
    /\ last.logs = 0
    /\ last.drawn = <<>>
    /\ last.recorderInits = 0
    /\ ~last.transaction.spanRecorder.present

\* C8 witness: a client with neither option, a parent that said true, and
\* a dropped transaction.
C8_Witness ==
  /\ IsStart
  /\ client.present
  /\ ~client.options.hasRate
  /\ client.options.tracesSampler = "absent"
  /\ last.parentSampled = JSTrue
  /\ Sampled = JSFalse

\* The sampled flag of the sentry-trace value.
SampledFlag(sampled) ==
  CASE sampled = JSTrue -> "-1"
    [] sampled = JSFalse -> "-0"
    [] sampled = Undefined -> ""

\* C9: traceHeaders returns the empty mapping without a scope or without a
\* span, else the one key sentry-trace with <traceId>-<spanId> and the
\* sampled flag, and it leaves the span unchanged.
C9_TraceHeaders ==
  [][last'.op = "traceHeaders" =>
       /\ scope' = scope
       /\ last'.headers =
            IF scope.present /\ scope.hasSpan
            THEN {<<"sentry-trace",
                    scope.span.traceId \o "-" \o scope.span.spanId \o SampledFlag(scope.span.sampled)>>}
            ELSE {}]_vars

\* C9 witness: the header of a sampled span.
C9_Witness ==
  /\ last.op = "traceHeaders"
  /\ scope.span.sampled = JSTrue
  /\ last.headers = {<<"sentry-trace", "abc123-def456-1">>}

\* The draw is the last gate: at most one, and only when sampling is
\* enabled and the candidate rate is valid and truthy.
DrawIsLastGate ==
  /\ Len(last.drawn) <= 1
  /\ last.drawn # <<>> =>
       /\ SamplingEnabled
       /\ ~last.threw
       /\ ValidRate(CandidateRate)
       /\ CandidateRate \notin {JSFalse, Num(0)}

\* C10 as stated: the draw is the last gate, and without a sampler a defined
\* parentSampled is the final sampled value.
C10_DrawLastAndParentWins ==
  IsStart =>
    /\ DrawIsLastGate
    /\ (~last.threw /\ ~SamplerConfigured /\ last.parentSampled # Undefined)
         => Sampled = last.parentSampled

\* C10 amended: the draw is the last gate, and when sampling is enabled
\* without a sampler function a defined parentSampled is the final sampled
\* value.
C10_DrawLastAndParentWinsWhenEnabled ==
  IsStart =>
    /\ DrawIsLastGate
    /\ (~last.threw /\ SamplingEnabled /\ ~SamplerConfigured /\ last.parentSampled # Undefined)
         => Sampled = last.parentSampled

\* C10 witness: a static rate of 0.5 without a parent decision, one draw,
\* and the draw drops the transaction.
C10_Witness ==
  /\ Returned
  /\ ~SamplerConfigured
  /\ client.options.tracesSampleRate = Num(50)
  /\ last.parentSampled = Undefined
  /\ last.drawn = <<Num(99)>>
  /\ Sampled = JSFalse

====
